---------------------------- MODULE Spec2Model ----------------------------
(***************************************************************************)
(* A model of src/wordle.py (class Wordle): the dictionary index built by  *)
(* parse_dictionary, the feedback codec (get_pattern_from_target,          *)
(* get_constraints_from_pattern, get_constraints_from_target), the         *)
(* candidate pool (update_valid_words, reset), the guess search            *)
(* (next_guess) and the game loop (play).                                  *)
(*                                                                         *)
(* Words are sequences of WordLen symbols; positions are 1..WordLen here   *)
(* and 0..4 in the source, so the key of position i is IndexKey(i - 1).    *)
(* Scores are kept as integers: words_scores[guess] * len(valid_words).    *)
(***************************************************************************)
EXTENDS Integers, Sequences, FiniteSets, TLC

\* ------------------------------------------------------------------------
\* Inputs of the model
\* ------------------------------------------------------------------------

\* The alphabet handed to Wordle(dict_file, first_moves_file, alphabet).
Alphabet == {"A", "B", "C", "D", "E", "F", "G"}

\* The symbols the codec is applied to exhaustively.  The codec functions are
\* class methods that never read the alphabet.
CodecAlphabet == {"A", "B", "C"}

\* Every word is five symbols long: range(5) throughout the source.
WordLen == 5

Pos == 1..WordLen

Words == [Pos -> CodecAlphabet]

Solved == [i \in Pos |-> "+"]

Blank == [i \in Pos |-> "-"]

\* start=None, target=None: no word.
None == << >>

\* The orders in which a Python set of symbols can be iterated.
SetOrders ==
  {o \in [1..Cardinality(CodecAlphabet) -> CodecAlphabet] :
     \A i, j \in DOMAIN o : i # j => o[i] # o[j]}

\* for g in set(guess): the symbols of S in iteration order o.
SetOrder(S, o) == SelectSeq(o, LAMBDA c : c \in S)

Min(a, b) == IF a < b THEN a ELSE b

\* str.count
Count(word, c) == Cardinality({i \in Pos : word[i] = c})

\* set(word)
Letters(word) == {word[i] : i \in Pos}

\* ------------------------------------------------------------------------
\* Constraint keys: the strings the source formats
\* ------------------------------------------------------------------------

\* "%d" % i, i in 0..4
IndexKey(i) == <<"0", "1", "2", "3", "4">>[i + 1]

\* "NOT-%d" % i, i in 0..4
NotKey(i) == <<"NOT-0", "NOT-1", "NOT-2", "NOT-3", "NOT-4">>[i + 1]

\* "MULT-%d" % n, n in 0..5
MultKey(n) == <<"MULT-0", "MULT-1", "MULT-2", "MULT-3", "MULT-4", "MULT-5">>[n + 1]

\* "MULT-%d+" % n, n in 0..5
MultPlusKey(n) ==
  <<"MULT-0+", "MULT-1+", "MULT-2+", "MULT-3+", "MULT-4+", "MULT-5+">>[n + 1]

NoneKey == "NONE"

\* ------------------------------------------------------------------------
\* Feedback codec
\* ------------------------------------------------------------------------

\* A second loop that marks "*" without using up the symbol's budget.
PresentPassNoBudget(guess, pattern, frequencies, i) ==
  [j \in Pos |-> IF pattern[j] = "-" /\ frequencies[guess[j]] > 0
                 THEN "*" ELSE pattern[j]]

\* Second loop of get_pattern_from_target, from position i on: a position
\* still "-" whose symbol has budget left becomes "*" and uses one up.
RECURSIVE PresentPass(_, _, _, _)
PresentPass(guess, pattern, frequencies, i) ==
  IF i > WordLen THEN pattern
  ELSE IF frequencies[guess[i]] > 0 /\ pattern[i] = "-"
       THEN PresentPass(guess, [pattern EXCEPT ![i] = "*"],
                        [frequencies EXCEPT ![guess[i]] = @ - 1], i + 1)
       ELSE PresentPass(guess, pattern, frequencies, i + 1)

\* First loop of get_pattern_from_target: "+" where the symbols agree, each
\* one taken from the symbol's budget min(target.count, guess.count).
HitPass(guess, target) ==
  LET frequencies == [g \in Letters(guess) |->
                        Min(Count(target, g), Count(guess, g))]
      hits(g) == Cardinality({i \in Pos : guess[i] = g /\ guess[i] = target[i]})
  IN [pattern |-> [i \in Pos |-> IF guess[i] = target[i] THEN "+" ELSE "-"],
      frequencies |-> [g \in Letters(guess) |-> frequencies[g] - hits(g)]]

get_pattern_from_target(guess, target) ==
  LET h == HitPass(guess, target)
  IN PresentPass(guess, h.pattern, h.frequencies, 1)

\* The atoms of one symbol after the positional ones; confirmed is
\* target_frequencies[g] and present says whether the first branch fails.
CountAtoms(guess, g, present, confirmed) ==
  IF ~present THEN <<  <<g, NoneKey>>  >>
  ELSE IF Count(guess, g) > confirmed THEN <<  <<g, MultKey(confirmed)>>  >>
  ELSE IF Count(guess, g) > 1 THEN <<  <<g, MultPlusKey(Count(guess, g))>>  >>
  ELSE << >>

RECURSIVE Concat(_)
Concat(ss) == IF ss = << >> THEN << >> ELSE Head(ss) \o Concat(Tail(ss))

get_constraints_from_pattern(guess, pattern, order) ==
  LET target_frequencies ==
        [g \in Letters(guess) |->
           Cardinality({i \in Pos : guess[i] = g /\ pattern[i] \in {"+", "*"}})]
      positional ==
        Concat([i \in Pos |->
                  IF pattern[i] = "+" THEN <<  <<guess[i], IndexKey(i - 1)>>  >>
                  ELSE IF pattern[i] = "*" THEN <<  <<guess[i], NotKey(i - 1)>>  >>
                  ELSE << >>])
      gs == SetOrder(Letters(guess), order)
  IN positional \o
     Concat([k \in DOMAIN gs |->
               CountAtoms(guess, gs[k], target_frequencies[gs[k]] # 0,
                          target_frequencies[gs[k]])])

\* The atoms of a comparison that counts every occurrence of a symbol the
\* target holds as confirmed, the target's own count left aside.
ConstraintsNoTargetCount(guess, target, order) ==
  get_constraints_from_pattern(
    guess,
    [i \in Pos |-> IF guess[i] = target[i] THEN "+"
                   ELSE IF guess[i] \in Letters(target) THEN "*" ELSE "-"],
    order)

get_constraints_from_target(guess, target, order) ==
  LET positional ==
        Concat([i \in Pos |->
                  IF guess[i] = target[i] THEN <<  <<guess[i], IndexKey(i - 1)>>  >>
                  ELSE IF guess[i] \in Letters(target)
                       THEN <<  <<guess[i], NotKey(i - 1)>>  >>
                  ELSE << >>])
      gs == SetOrder(Letters(guess), order)
  IN positional \o
     Concat([k \in DOMAIN gs |->
               CountAtoms(guess, gs[k], gs[k] \in Letters(target),
                          Count(target, gs[k]))])

\* What an atom says of a word (the docstring of parse_dictionary).
Satisfies(word, atom) ==
  LET l == atom[1]
      k == atom[2]
  IN \/ \E i \in Pos : k = IndexKey(i - 1) /\ word[i] = l
     \/ \E i \in Pos : k = NotKey(i - 1) /\ word[i] # l /\ l \in Letters(word)
     \/ \E n \in 1..WordLen : k = MultKey(n) /\ Count(word, l) = n
     \/ \E n \in 2..WordLen : k = MultPlusKey(n) /\ Count(word, l) >= n
     \/ k = NoneKey /\ l \notin Letters(word)

\* ------------------------------------------------------------------------
\* Dictionary index
\* ------------------------------------------------------------------------

\* constraint_set_keys: the keys every letter's second-level dict is given.
constraint_set_keys ==
  {IndexKey(i) : i \in 0..4} \cup {NotKey(i) : i \in 0..4}
    \cup {MultKey(n) : n \in 1..5} \cup {MultPlusKey(n) : n \in 2..4}
    \cup {NoneKey}

\* The keys whose set the letter loop adds word to.
LetterKeys(word, letter) ==
  IF letter \in Letters(word)
  THEN {NotKey(i - 1) : i \in {j \in Pos : word[j] # letter}}
         \cup {MultKey(Count(word, letter))}
         \cup {MultPlusKey(n) : n \in 2..Count(word, letter)}
  ELSE {NoneKey}

\* The keys whose set the index loop adds word to, under letter.
PositionKeys(word, letter) == {IndexKey(i - 1) : i \in {j \in Pos : word[j] = letter}}

\* parse_dictionary raises KeyError when it adds to a set that does not exist.
ParseRaises(words, alphabet) ==
  \E word \in words :
    \/ \E letter \in alphabet : ~(LetterKeys(word, letter) \subseteq constraint_set_keys)
    \/ \E i \in Pos : word[i] \notin alphabet

\* parse_dictionary: the constraint_tree it returns when it does not raise.
parse_dictionary(words, alphabet) ==
  [letter \in alphabet |->
     [k \in constraint_set_keys |->
        {word \in words :
           k \in LetterKeys(word, letter) \cup PositionKeys(word, letter)}]]

\* ------------------------------------------------------------------------
\* Candidate pool
\* ------------------------------------------------------------------------

\* constraint_tree[c[0]][c[1]] raises KeyError for a key that is not there.
HasKey(tree, c) == c[1] \in DOMAIN tree /\ c[2] \in DOMAIN tree[c[1]]

LookupRaises(tree, constraints) ==
  \E k \in DOMAIN constraints : ~HasKey(tree, constraints[k])

\* [self.constraint_tree[c[0]][c[1]] for c in constraints]
PossibilitySets(tree, constraints) ==
  [k \in DOMAIN constraints |-> tree[constraints[k][1]][constraints[k][2]]]

RemoveAt(s, k) == SubSeq(s, 1, k - 1) \o SubSeq(s, k + 1, Len(s))

\* list.sort(key=len): stable, shortest first.
RECURSIVE SortByLen(_)
SortByLen(sets) ==
  IF sets = << >> THEN << >>
  ELSE LET least == CHOOSE k \in DOMAIN sets :
                      \A j \in DOMAIN sets :
                        \/ Cardinality(sets[k]) < Cardinality(sets[j])
                        \/ Cardinality(sets[k]) = Cardinality(sets[j]) /\ k <= j
       IN <<sets[least]>> \o SortByLen(RemoveAt(sets, least))

\* reduce(lambda a, b: a.intersection(b), sets), sets not empty
RECURSIVE Reduce(_)
Reduce(sets) ==
  IF Len(sets) = 1 THEN sets[1]
  ELSE Reduce(<<sets[1] \cap sets[2]>> \o SubSeq(sets, 3, Len(sets)))

\* An update that intersects the constraint sets and leaves the pool out.
UpdateNoPool(tree, pool, new_constraints) ==
  IF new_constraints = << >> THEN pool
  ELSE Reduce(SortByLen(PossibilitySets(tree, new_constraints)))

\* update_valid_words: the new self.valid_words, when no lookup raises.
update_valid_words(tree, pool, new_constraints) ==
  Reduce(SortByLen(Append(PossibilitySets(tree, new_constraints), pool)))

\* ------------------------------------------------------------------------
\* Guess search (next_guess)
\* ------------------------------------------------------------------------

\* The iteration order of set(guess) in the game: update_valid_words and the
\* search read a constraint list as a collection, so any one order serves.
GameOrder == <<"A", "B", "C", "D", "E", "F", "G">>

\* move == 5: the last move
LastMove == 5

\* range(0, 6): the moves of a game
MaxMoves == 6

\* len(self.valid_words) <= 2
SmallPool == 2

\* sorted(...)[0:15]
TopN == 15

\* min_score = float('inf')
Inf == -1

\* pattern_frequencies: how many targets of the pool give each pattern but "+++++".
PatternFrequencies(g, pool) ==
  LET pats == {get_pattern_from_target(g, t) : t \in pool} \ {Solved}
  IN [p \in pats |-> Cardinality({t \in pool : get_pattern_from_target(g, t) = p})]

\* result_size: the words of the pool in every constraint set of the pattern.
ResultSize(tree, g, p, pool) ==
  LET sets == PossibilitySets(tree, get_constraints_from_pattern(g, p, GameOrder))
  IN Cardinality({word \in pool : \A k \in DOMAIN sets : word \in sets[k]})

\* The lookups of the scoring loop raise KeyError for a key that is not there.
SearchRaises(tree, g, pool) ==
  \E p \in DOMAIN PatternFrequencies(g, pool) :
    LookupRaises(tree, get_constraints_from_pattern(g, p, GameOrder))

\* A cut-off that compares the partial score with 0.1, not with min_score + 0.1.
PrunedNoBest(score, best, n) == 10 * score > n

\* words_scores[guess] > min_score + 0.1, both sides times n = len(valid_words)
Pruned(score, best, n) == best # Inf /\ 10 * score > 10 * best + n

\* The inner loop over the patterns, most frequent first; patterns of equal
\* frequency come in the pool's iteration order, which is arbitrary.  The set
\* of scores the loop can end with.
RECURSIVE Accumulate(_, _, _, _, _, _)
Accumulate(freq, contrib, remaining, score, best, n) ==
  IF remaining = {} THEN {score}
  ELSE LET top == {p \in remaining : \A q \in remaining : freq[q] <= freq[p]}
       IN UNION {IF Pruned(score + contrib[p], best, n)
                 THEN {score + contrib[p]}
                 ELSE Accumulate(freq, contrib, remaining \ {p},
                                 score + contrib[p], best, n) : p \in top}

\* result_size * pattern_frequencies[pattern], per pattern
Contributions(tree, g, pool) ==
  LET freq == PatternFrequencies(g, pool)
  IN [p \in DOMAIN freq |-> ResultSize(tree, g, p, pool) * freq[p]]

\* Keep track of the best score so far.
NewBest(best, score) == IF best = Inf \/ score < best THEN score ELSE best

\* What the scoring of each word of guess_set reads: computed once per call.
ScoreTable(tree, guess_set, pool) ==
  [g \in guess_set |->
     [freq |-> PatternFrequencies(g, pool), contrib |-> Contributions(tree, g, pool)]]

\* "for guess in guess_set": the set iterates in an arbitrary order, which is
\* also the order of the dict words_scores.  The set of [order, scores] the
\* loop can end with, from the words still to visit.
RECURSIVE ScoreLoop(_, _, _, _, _, _)
ScoreLoop(table, remaining, order, scores, best, n) ==
  IF remaining = {} THEN {[order |-> order, scores |-> scores]}
  ELSE UNION {UNION {ScoreLoop(table, remaining \ {g}, Append(order, g),
                               [scores EXCEPT ![g] = s], NewBest(best, s), n)
                       : s \in Accumulate(table[g].freq, table[g].contrib,
                                          DOMAIN table[g].freq, 0, best, n)}
                : g \in remaining}

\* sorted(words_scores, key=words_scores.get): stable on the dict's order.
RECURSIVE SortedByScore(_, _)
SortedByScore(order, scores) ==
  IF order = << >> THEN << >>
  ELSE LET least == CHOOSE k \in DOMAIN order :
                      \A j \in DOMAIN order :
                        \/ scores[order[k]] < scores[order[j]]
                        \/ scores[order[k]] = scores[order[j]] /\ k <= j
       IN <<order[least]>> \o SortedByScore(RemoveAt(order, least), scores)

\* The search of next_guess: the guess it returns, the lines it writes to the
\* first-moves file on the first move, and words_scores.
SearchOutcomes(tree, guess_set, pool) ==
  {LET sorted_words == SortedByScore(r.order, r.scores)
   IN [guess |-> sorted_words[1],
       lines |-> SubSeq(sorted_words, 1, Min(TopN, Len(sorted_words))),
       scores |-> r.scores]
     : r \in ScoreLoop(ScoreTable(tree, guess_set, pool), guess_set, << >>,
                       [word \in guess_set |-> 0], Inf, Cardinality(pool))}

\* ------------------------------------------------------------------------
\* State
\* ------------------------------------------------------------------------

VARIABLES
  dict_file,         \* the words of the dictionary file
  first_moves_file,  \* [exists, lines]: the first-moves file on disk
  constraint_tree,   \* self.constraint_tree
  all_words,         \* self.all_words
  valid_words,       \* self.valid_words
  is_test_mode,      \* main: --test
  games_left,        \* test: the games still to run
  untried,           \* test: the words of the shuffled list not yet played
  is_hard_mode,      \* play's arguments
  start,
  target,
  move,              \* play: the loop variable
  guess,             \* play: the guess of this move
  words_scores,      \* next_guess: score of each word of guess_set, times n
  user_cache,        \* lru_cache of get_constraints_from_user: guess -> result
  pc,                \* where the program is
  error,             \* the exception that ended it, if any
  ret,               \* what play returned
  exit,              \* which return statement of play returned
  via,               \* which branch produced the guess
  file_written,      \* whether next_guess wrote first_moves_file
  pattern,           \* codec: get_pattern_from_target(guess, target)
  from_target,       \* codec: get_constraints_from_target(guess, target)
  from_pattern       \* codec: get_constraints_from_pattern(guess, pattern)

vars ==
  <<dict_file, first_moves_file, constraint_tree, all_words, valid_words,
    is_test_mode, games_left, untried, is_hard_mode, start, target, move,
    guess, words_scores, user_cache, pc, error, ret, exit, via, file_written,
    pattern, from_target, from_pattern>>

codec_vars == <<pattern, from_target, from_pattern>>

disk_vars == <<dict_file, first_moves_file, file_written>>

object_vars == <<constraint_tree, all_words, valid_words>>

test_vars == <<is_test_mode, games_left, untried>>

arg_vars == <<is_hard_mode, start, target>>

result_vars == <<error, ret, exit>>

\* ------------------------------------------------------------------------
\* The codec applied to every pair of words
\* ------------------------------------------------------------------------

NoFile == [exists |-> FALSE, lines |-> << >>]

File(lines) == [exists |-> TRUE, lines |-> lines]

Idle ==
  /\ dict_file = {}
  /\ first_moves_file = NoFile
  /\ constraint_tree = << >>
  /\ all_words = {}
  /\ valid_words = {}
  /\ is_test_mode = FALSE
  /\ games_left = 0
  /\ untried = {}
  /\ is_hard_mode = FALSE
  /\ start = None
  /\ move = 0
  /\ words_scores = << >>
  /\ user_cache = << >>
  /\ error = "none"
  /\ ret = 0
  /\ exit = "none"
  /\ via = "none"
  /\ file_written = FALSE

CodecInit ==
  /\ Idle
  /\ guess \in Words
  /\ target \in Words
  /\ pattern = Blank
  /\ from_target = << >>
  /\ from_pattern = << >>
  /\ pc = "compare"

Compare ==
  /\ pc = "compare"
  /\ \E order \in SetOrders :
       /\ pattern' = get_pattern_from_target(guess, target)
       /\ from_target' = get_constraints_from_target(guess, target, order)
       /\ from_pattern' = get_constraints_from_pattern(guess, pattern', order)
  /\ pc' = "compared"
  /\ UNCHANGED <<guess, target, disk_vars, object_vars, test_vars, is_hard_mode,
                 start, move, words_scores, user_cache, result_vars, via>>

CodecNext == Compare

SpecCodec == CodecInit /\ [][CodecNext]_vars

\* ------------------------------------------------------------------------
\* The program: main, Wordle(...), test, play
\* ------------------------------------------------------------------------

Word(a, b, c, d, e) == <<a, b, c, d, e>>

\* A dictionary whose every guess splits the pool differently.
SmallDict ==
  {Word("C", "C", "B", "B", "C"), Word("B", "A", "A", "A", "A"),
   Word("A", "A", "A", "C", "B"), Word("A", "A", "A", "B", "C")}

\* Six words that differ in their first symbol only.
RhymeDict == {Word(x, "B", "B", "B", "B") : x \in {"A", "C", "D", "E", "F", "G"}}

\* A dictionary with a word of one symbol.
MonoDict == {Word("A", "A", "A", "A", "A"), Word("A", "A", "A", "B", "C")}

Mono == Word("B", "B", "B", "B", "B")

Dictionaries == {SmallDict, RhymeDict, MonoDict}

\* First-moves files found on disk beside each dictionary.
FirstMovesFiles(words) ==
  IF words = RhymeDict THEN {File(<<Mono>>)}
  ELSE {NoFile, File(<< >>), File(<<Word("A", "A", "A", "C", "B")>>),
        File(<<Word("C", "C", "B", "B", "C"), Mono>>)}

\* --start: a word or None.
Starts == {None, Mono}

\* The command lines main is run with.  The six-word dictionary is played
\* once, with --hard, against one of its words; the others are played once
\* against a word of theirs, against Mono or against the user (target None),
\* or run by --test.
CommandLines(words) ==
  IF words = RhymeDict
  THEN {[test |-> FALSE, hard |-> TRUE, start |-> s,
         target |-> Word("G", "B", "B", "B", "B")] : s \in Starts}
  ELSE {[test |-> FALSE, hard |-> h, start |-> s, target |-> t]
          : h \in BOOLEAN, s \in Starts, t \in {None, Mono} \cup words}
         \cup {[test |-> TRUE, hard |-> h, start |-> s, target |-> None]
                 : h \in BOOLEAN, s \in Starts}

\* The results the user enters at "Enter result: ": the pattern of the guess
\* against any word the user may have in mind.
UserWords == all_words \cup {Mono}

UserResults(g) == {get_pattern_from_target(g, w) : w \in UserWords}

\* The most games --test is given.
MaxGames == 2

Init ==
  /\ dict_file \in Dictionaries
  /\ first_moves_file \in FirstMovesFiles(dict_file)
  /\ \E argv \in CommandLines(dict_file) :
       /\ is_test_mode = argv.test
       /\ is_hard_mode = argv.hard
       /\ start = argv.start
       /\ target = argv.target
  /\ constraint_tree = << >>
  /\ all_words = {}
  /\ valid_words = {}
  /\ games_left = 0
  /\ untried = {}
  /\ move = 0
  /\ guess = None
  /\ words_scores = << >>
  /\ user_cache = << >>
  /\ pc = "init"
  /\ error = "none"
  /\ ret = 0
  /\ exit = "none"
  /\ via = "none"
  /\ file_written = FALSE
  /\ pattern = Blank
  /\ from_target = << >>
  /\ from_pattern = << >>

Raise(e) ==
  /\ pc' = "raised"
  /\ error' = e

\* Wordle(dictionary_file, first_moves_file, alphabet)
Construct ==
  /\ pc = "init"
  /\ IF ParseRaises(dict_file, Alphabet)
     THEN /\ Raise("parse_dictionary:KeyError")
          /\ UNCHANGED object_vars
     ELSE /\ constraint_tree' = parse_dictionary(dict_file, Alphabet)
          /\ all_words' = dict_file
          /\ valid_words' = dict_file
          /\ pc' = "main"
          /\ UNCHANGED error
  /\ UNCHANGED <<disk_vars, test_vars, arg_vars, move, guess, words_scores,
                 user_cache, ret, exit, via, codec_vars>>

\* main: wordle.play(is_hard_mode, start, target)
MainPlay ==
  /\ pc = "main"
  /\ ~is_test_mode
  /\ move' = 0
  /\ pc' = "next_guess"
  /\ UNCHANGED <<disk_vars, object_vars, test_vars, arg_vars, guess,
                 words_scores, user_cache, result_vars, via, codec_vars>>

\* main: wordle.test(is_hard_mode, start, max_num_tests), up to its loop, for
\* --test N with N in 1..MaxGames
MainTest ==
  /\ pc = "main"
  /\ is_test_mode
  /\ \E max_games \in 1..MaxGames :
       games_left' = Min(max_games, Cardinality(all_words))
  /\ untried' = all_words
  /\ pc' = "test"
  /\ UNCHANGED <<disk_vars, object_vars, is_test_mode, arg_vars, move, guess,
                 words_scores, user_cache, result_vars, via, codec_vars>>

\* test: self.play(is_hard_mode, start, all_words_list[i], True)
TestPlay ==
  /\ pc = "test"
  /\ games_left > 0
  /\ \E t \in untried :
       /\ target' = t
       /\ untried' = untried \ {t}
  /\ move' = 0
  /\ pc' = "next_guess"
  /\ UNCHANGED <<disk_vars, object_vars, is_test_mode, games_left, is_hard_mode,
                 start, guess, words_scores, user_cache, result_vars, via,
                 codec_vars>>

\* test: self.reset() after a game
TestReset ==
  /\ pc = "returned"
  /\ is_test_mode
  /\ valid_words' = all_words
  /\ games_left' = games_left - 1
  /\ pc' = "test"
  /\ UNCHANGED <<disk_vars, constraint_tree, all_words, is_test_mode, untried,
                 arg_vars, move, guess, words_scores, user_cache, result_vars,
                 via, codec_vars>>

\* test: the loop is over
TestDone ==
  /\ pc = "test"
  /\ games_left = 0
  /\ pc' = "done"
  /\ UNCHANGED <<disk_vars, object_vars, test_vars, arg_vars, move, guess,
                 words_scores, user_cache, result_vars, via, codec_vars>>

GuessIs(g, branch) ==
  /\ guess' = g
  /\ via' = branch
  /\ pc' = "feedback"
  /\ UNCHANGED <<words_scores, error, first_moves_file, file_written>>

NextGuessRaises(e) ==
  /\ Raise(e)
  /\ UNCHANGED <<guess, via, words_scores, first_moves_file, file_written>>

\* guess_set = self.valid_words if is_hard_mode else self.all_words
GuessSet == IF is_hard_mode THEN valid_words ELSE all_words

\* play: the guess of this move, by start or by next_guess
NextGuess ==
  /\ pc = "next_guess"
  /\ IF move = 0 /\ start # None
     THEN GuessIs(start, "start")
     ELSE IF move = 0 /\ first_moves_file.exists
     THEN IF first_moves_file.lines = << >>
          THEN NextGuessRaises("next_guess:IndexError")
          ELSE \E k \in DOMAIN first_moves_file.lines :
                 GuessIs(first_moves_file.lines[k], "cache")
     ELSE IF move = LastMove
     THEN IF valid_words = {}
          THEN NextGuessRaises("next_guess:IndexError")
          ELSE \E g \in valid_words : GuessIs(g, "last")
     ELSE IF Cardinality(valid_words) <= SmallPool
     THEN IF valid_words = {}
          THEN NextGuessRaises("next_guess:KeyError")
          ELSE \E g \in valid_words : GuessIs(g, "small")
     ELSE IF \E g \in GuessSet : SearchRaises(constraint_tree, g, valid_words)
     THEN NextGuessRaises("next_guess:KeyError")
     ELSE \E o \in SearchOutcomes(constraint_tree, GuessSet, valid_words) :
            /\ guess' = o.guess
            /\ words_scores' = o.scores
            /\ via' = "search"
            /\ pc' = "feedback"
            /\ IF move = 0
               THEN /\ first_moves_file' = File(o.lines)
                    /\ file_written' = TRUE
               ELSE UNCHANGED <<first_moves_file, file_written>>
            /\ UNCHANGED error
  /\ UNCHANGED <<dict_file, object_vars, test_vars, arg_vars, move, user_cache,
                 ret, exit, codec_vars>>

\* return -1: "I'm out of possibilities!"
ContradictionValue == -1

\* return -1: "Sorry, no solution was reached in 6 moves."
UnsolvedValue == -1

Return(value, statement) ==
  /\ ret' = value
  /\ exit' = statement
  /\ pc' = "returned"
  /\ UNCHANGED <<move, error>>

\* play: from update_valid_words to the end of the loop body
Apply(new_constraints, is_solved) ==
  IF LookupRaises(constraint_tree, new_constraints)
  THEN /\ Raise("update_valid_words:KeyError")
       /\ UNCHANGED <<valid_words, move, ret, exit>>
  ELSE /\ valid_words' =
            update_valid_words(constraint_tree, valid_words, new_constraints)
       /\ IF is_solved THEN Return(move, "solved")
          ELSE IF valid_words' = {} THEN Return(ContradictionValue, "contradiction")
          ELSE IF move + 1 = MaxMoves THEN Return(UnsolvedValue, "unsolved")
          ELSE /\ move' = move + 1
               /\ pc' = "next_guess"
               /\ UNCHANGED <<result_vars>>

\* play: the rest of the loop body, once the guess is known
Feedback ==
  /\ pc = "feedback"
  /\ IF target = None
     THEN IF guess \in DOMAIN user_cache
          THEN /\ Apply(get_constraints_from_pattern(guess, user_cache[guess], GameOrder),
                        user_cache[guess] = Solved)
               /\ UNCHANGED user_cache
          ELSE \E result \in UserResults(guess) :
                 /\ Apply(get_constraints_from_pattern(guess, result, GameOrder),
                          result = Solved)
                 /\ user_cache' = [g \in DOMAIN user_cache \cup {guess} |->
                                     IF g = guess THEN result ELSE user_cache[g]]
     ELSE /\ Apply(get_constraints_from_target(guess, target, GameOrder),
                   guess = target)
          /\ UNCHANGED user_cache
  /\ words_scores' = << >>
  /\ UNCHANGED <<disk_vars, constraint_tree, all_words, test_vars, arg_vars,
                 guess, via, codec_vars>>

Next ==
  \/ Construct
  \/ MainPlay
  \/ MainTest
  \/ TestPlay
  \/ TestReset
  \/ TestDone
  \/ NextGuess
  \/ Feedback

Spec == Init /\ [][Next]_vars

\* ------------------------------------------------------------------------
\* Properties
\* ------------------------------------------------------------------------

RECURSIVE SumOf(_, _)
SumOf(f, S) ==
  IF S = {} THEN 0
  ELSE LET x == CHOOSE y \in S : TRUE IN f[x] + SumOf(f, S \ {x})

\* The score of g with no pattern skipped, times the size of the pool.
FullScore(g, pool) ==
  SumOf(Contributions(constraint_tree, g, pool),
        DOMAIN Contributions(constraint_tree, g, pool))

Confirmed(c) == {i \in Pos : guess[i] = c /\ pattern[i] \in {"+", "*"}}

\* C1: get_constraints_from_target(guess, secret) is the same list as
\* get_constraints_from_pattern(guess, get_pattern_from_target(guess, secret)).
C1_CodecEquivalence == pc = "compared" => from_target = from_pattern

\* C5: get_pattern_from_target marks "+" exactly where guess and secret agree;
\* each symbol c has min(count in guess, count in secret) positions marked "+"
\* or "*"; the "*" of c are its leftmost positions that are not "+".
C5_PatternCorrect ==
  pc = "compared" =>
    /\ \A i \in Pos : pattern[i] = "+" <=> guess[i] = target[i]
    /\ \A c \in CodecAlphabet :
         Cardinality(Confirmed(c)) = Min(Count(guess, c), Count(target, c))
    /\ \A i, j \in Pos :
         (i < j /\ guess[i] = guess[j] /\ pattern[i] # "+" /\ pattern[j] = "*")
           => pattern[i] = "*"

\* A guess that repeats a symbol more often than the secret holds it, with one
\* occurrence marked "*" and a later one "-".
C5_Witness ==
  /\ pc = "compared"
  /\ \E i, j \in Pos :
       /\ i < j
       /\ guess[i] = guess[j]
       /\ pattern[i] = "*"
       /\ pattern[j] = "-"
       /\ Count(guess, guess[i]) > Count(target, guess[i])

\* C6: every word that satisfies all atoms of
\* get_constraints_from_pattern(guess, pattern) gives that pattern against guess.
C6_AtomsSufficient ==
  pc = "compared" =>
    \A w \in Words :
      (\A k \in DOMAIN from_pattern : Satisfies(w, from_pattern[k]))
        => get_pattern_from_target(guess, w) = pattern

InGame == pc \in {"next_guess", "feedback", "returned", "test", "done"}

\* C2: update_valid_words never adds a word to the pool: between resets
\* valid_words only shrinks, and it is always a subset of the dictionary.
C2_MonotonicShrink ==
  [][/\ valid_words' \subseteq all_words'
     /\ (InGame /\ ~(pc = "returned" /\ pc' = "test"))
          => valid_words' \subseteq valid_words]_vars

\* A turn has removed some words of the pool and left others.
C2_Witness ==
  /\ pc = "next_guess"
  /\ move > 0
  /\ valid_words # {}
  /\ valid_words # all_words

PlayErrors ==
  {"next_guess:IndexError", "next_guess:KeyError", "update_valid_words:KeyError"}

\* C3: with a known secret play ends in Solved, Contradiction or Unsolved
\* within six guesses, whatever the secret, the mode and the start word.
C3_TerminationBound ==
  target # None =>
    /\ error \notin PlayErrors
    /\ move < MaxMoves
    /\ pc = "returned" => exit \in {"solved", "contradiction", "unsolved"}

\* C4: the value play returns for Contradiction is neither the value it
\* returns for Unsolved nor a Solved(turn).
C4_ContradictionDistinct ==
  (pc = "returned" /\ exit = "contradiction") =>
    /\ ret # UnsolvedValue
    /\ ret \notin 0..LastMove

\* Every atom of the data model: position, NOT-position, exact count,
\* at-least count, absence.
AtomKeys ==
  {IndexKey(i) : i \in 0..4} \cup {NotKey(i) : i \in 0..4}
    \cup {MultKey(n) : n \in 1..5} \cup {MultPlusKey(n) : n \in 2..5}
    \cup {NoneKey}

\* C7: parse_dictionary completes, and for every symbol and every atom the
\* index holds exactly the dictionary words that satisfy the atom.
C7_IndexComplete ==
  pc # "init" =>
    /\ error # "parse_dictionary:KeyError"
    /\ \A letter \in Alphabet, k \in AtomKeys :
         /\ HasKey(constraint_tree, <<letter, k>>)
         /\ constraint_tree[letter][k] =
              {word \in all_words : Satisfies(word, <<letter, k>>)}

\* C8: next_guess does not raise when the pool is not empty, whatever the
\* move, the mode and the first-moves file.
C8_NeverRaises ==
  error \in {"next_guess:IndexError", "next_guess:KeyError"} => valid_words = {}

\* C9: the guess the search returns has the least full score of guess_set.
C9_WinnerIsBest ==
  (pc = "feedback" /\ via = "search") =>
    \A g \in GuessSet : FullScore(guess, valid_words) <= FullScore(g, valid_words)

\* The search has run and skipped patterns of some guess.
C9_Witness ==
  /\ pc = "feedback"
  /\ via = "search"
  /\ \E g \in GuessSet : words_scores[g] < FullScore(g, valid_words)

\* C10: the file the first move's search writes lists the min(15, |guess_set|)
\* guesses of least full score, least first.
C10_TrueTopN ==
  file_written =>
    LET lines == first_moves_file.lines
    IN /\ Len(lines) = Min(TopN, Cardinality(all_words))
       /\ \A i, j \in DOMAIN lines :
            i < j => FullScore(lines[i], all_words) <= FullScore(lines[j], all_words)
       /\ \A w \in all_words \ {lines[i] : i \in DOMAIN lines} :
            \A i \in DOMAIN lines :
              FullScore(lines[i], all_words) <= FullScore(w, all_words)

\* C11: in a game against a known secret that is a dictionary word, every
\* update_valid_words with the atoms of get_constraints_from_target(guess,
\* secret) completes and leaves the secret in the pool, whatever the guess; so
\* the pool is not empty at any next_guess and play never ends in
\* Contradiction.
C11_SecretKept ==
  (target # None /\ target \in all_words) =>
    /\ target \in valid_words
    /\ error # "update_valid_words:KeyError"
    /\ exit # "contradiction"

\* A guess that holds a symbol of the secret more often than the secret does
\* has been applied, and the game goes on with the secret in a smaller pool.
C11_Witness ==
  /\ pc = "next_guess"
  /\ move > 0
  /\ target # None
  /\ target \in all_words
  /\ guess # target
  /\ \E c \in Letters(target) : Count(guess, c) > Count(target, c)
  /\ target \in valid_words
  /\ valid_words # all_words

=============================================================================
